---- MODULE Spec2Model ----
(***************************************************************************)
(* ChipChat: the webhook dispatch engine of the ChatShipper SDK            *)
(* (lib/chipchat.js).  The bot instance is a state machine: its options,   *)
(* the receive middleware stack, the conversation and organization caches, *)
(* the text-trigger list, the reply-listener list and its counter, the     *)
(* organization fetches and ask-sends in flight.  Every public operation   *)
(* (ingest, onText, removeTextListener, onReply, removeReplyListener, ask)  *)
(* and every asynchronous continuation is one action.  `op` is the call    *)
(* the last action made and `log` everything that call emitted, invoked or  *)
(* threw, in order.                                                        *)
(***************************************************************************)
EXTENDS Integers, Sequences, FiniteSets, TLC

VARIABLES
    ignoreSelf,            \* options.ignoreSelf
    ignoreBots,            \* options.ignoreBots
    onlyFirstMatch,        \* options.onlyFirstMatch
    preloadOrganizations,  \* options.preloadOrganizations
    receive,               \* this.middleware.receive: the steps, in order
    conversations,         \* this._conversations
    organizations,         \* this._organizations (the ids that have an entry)
    textRegexpCallbacks,   \* this._textRegexpCallbacks
    replyListenerId,       \* this._replyListenerId
    replyListeners,        \* this._replyListeners
    fetches,               \* organizations.get promises not yet settled
    asks,                  \* ask: sends of a question not yet called back
    op,                    \* the operation the last action performed
    log,                   \* what that operation emitted / invoked / threw
    matchArgs,             \* match(c, m, conditionals): the arguments
    matchResult            \* match(c, m, conditionals): the value returned, once called

vars == <<ignoreSelf, ignoreBots, onlyFirstMatch, preloadOrganizations, receive,
          conversations, organizations, textRegexpCallbacks, replyListenerId,
          replyListeners, fetches, asks, op, log, matchArgs, matchResult>>

(***************************************************************************)
(* Bounds of the model.                                                    *)
(***************************************************************************)
MaxTriggers  == 2   \* text triggers registered at one time
MaxListeners == 2   \* reply listeners registered at one time
MaxReplyId   == 3   \* cap of the reply-listener counter
MaxFetches   == 2   \* organization fetches in flight
MaxAsks      == 1   \* ask-sends in flight
MaxSteps     == 4   \* steps of the receive stack

(***************************************************************************)
(* JavaScript values.  An optional value is a tuple: <<>> is undefined,    *)
(* <<x>> is x.                                                             *)
(***************************************************************************)
None == <<>>
Some(x) == <<x>>
Undefined == "undefined"     \* an absent string-valued field
Truthy(s) == s \notin {Undefined, ""}

Range(s) == {s[i] : i \in DOMAIN s}

\* Array.prototype.splice(index, 1)
Splice(s, i) == SubSeq(s, 1, i - 1) \o SubSeq(s, i + 1, Len(s))

(***************************************************************************)
(* The Conditional Matcher: matcher(value, test) and match(c, m, conds).   *)
(* A JS value is a tagged tuple: <<"undef">>, <<"str", s>>, <<"num", n>>,  *)
(* <<"bool", b>>, <<"arr", seq>>, <<"re", src>>, <<"obj", f>>.  An object  *)
(* is a function from keys to values; a key is [at, name]: `at` says the   *)
(* key starts with "@" and `name` is the rest.                             *)
(***************************************************************************)
JsUndef == <<"undef">>
JsStr(s) == <<"str", s>>
JsNum(n) == <<"num", n>>
JsObj(f) == <<"obj", f>>
JsArr(s) == <<"arr", s>>
JsRe(src) == <<"re", src>>
Key(at, name) == [at |-> at, name |-> name]

\* o[k] for an object o (a function): undefined when o has no such key
Prop(o, k) == IF k \in DOMAIN o THEN o[k] ELSE JsUndef

\* JS truthiness of a value
JsTruthy(v) ==
    CASE v[1] = "undef" -> FALSE
      [] v[1] = "str"   -> v[2] # ""
      [] v[1] = "num"   -> v[2] # 0
      [] v[1] = "bool"  -> v[2]
      [] OTHER          -> TRUE

\* String(value), as RegExp.prototype.test coerces its argument
JsToString(v) ==
    CASE v[1] = "undef" -> "undefined"
      [] v[1] = "str"   -> v[2]
      [] v[1] = "num"   -> ToString(v[2])
      [] v[1] = "bool"  -> IF v[2] THEN "true" ELSE "false"
      [] OTHER          -> "[object]"

\* The strings each regular expression of the model accepts (test.test)
RegExpTest(src, str) ==
    CASE src = "^1"  -> str \in {"123", "1"}
      [] src = "^h"  -> str \in {"hi"}
      [] src = "und" -> str \in {"undefined"}
      [] OTHER       -> FALSE

\* Mutant: only a scalar expectation is ever met
matcher_Scalar(value, test) ==
    test[1] \in {"str", "num", "bool"} /\ value = test

RECURSIVE matcher(_, _)
matcher(value, test) ==
    CASE test[1] \in {"str", "num", "bool"} -> value = test
      [] test[1] = "arr" ->
            \E i \in DOMAIN test[2] : matcher(value, test[2][i])
      [] test[1] = "re"  -> RegExpTest(test[2], JsToString(value))
      [] OTHER -> FALSE

\* Mutant: a key is only looked up on the context, with the "@" stripped
reducer_ContextOnly(c, m, conditionals, accumulator, current) ==
    accumulator /\ current.at
    /\ matcher(Prop(c, Key(FALSE, current.name)), conditionals[current])

\* One step of match's reducer for the key `current`
reducer(c, m, conditionals, accumulator, current) ==
    IF accumulator
    THEN IF JsTruthy(Prop(m, current))
            /\ matcher(Prop(m, current), conditionals[current])
         THEN TRUE
         ELSE IF current.at
                 /\ matcher(Prop(c, Key(FALSE, current.name)), conditionals[current])
         THEN TRUE
         ELSE IF JsTruthy(Prop(c, Key(FALSE, "meta")))
                 /\ matcher(Prop(Prop(c, Key(FALSE, "meta"))[2], current),
                            conditionals[current])
         THEN TRUE
         ELSE FALSE
    ELSE FALSE

RECURSIVE matchFold(_, _, _, _, _, _)
matchFold(c, m, conditionals, keys, k, acc) ==
    IF k > Len(keys) THEN acc
    ELSE matchFold(c, m, conditionals, keys, k + 1,
                   reducer(c, m, conditionals, acc, keys[k]))

\* match(c, m, conditionals); `keys` is Object.keys(conditionals), in order
match(c, m, conditionals, keys) ==
    IF Len(keys) # 0
    THEN matchFold(c, m, conditionals, keys, 1, TRUE)
    ELSE TRUE

(***************************************************************************)
(* Webhook payloads.  A payload is [event, activity, conversation,         *)
(* message]: payload.event, payload.activity, payload.data.conversation    *)
(* and payload.data.message (the two last optional).  A conversation       *)
(* snapshot is [id, organization, asked]; `asked` stands for the metadata  *)
(* entry meta["_asked" + auth.user] being set.  A message is               *)
(* [conversation, user, role, type, text, meta], meta optional             *)
(* [users, targetUser].                                                    *)
(***************************************************************************)
BotUser == "bot"             \* this.auth.user, from the token
Secret  == "s3cret"          \* this.secret
ConvIds == {"c1", "c2"}
OrgIds  == {"o1", "o2"}
MessageEvent == "message.create.contact.chat"
UpdateEvent  == "conversation.update"

\* payload.event.startsWith('message'), on the event names of the model
StartsWithMessage(event) ==
    event \in {MessageEvent, MessageEvent \o ".contact", MessageEvent \o ".bot",
               "message"}

Conversation(id, org, asked) == [id |-> id, organization |-> org, asked |-> asked]
Message(conv, user, role, type, text) ==
    [conversation |-> conv, user |-> user, role |-> role, type |-> type,
     text |-> text, meta |-> None]
Payload(event, activity, conv, msg) ==
    [event |-> event, activity |-> activity, conversation |-> conv, message |-> msg]

\* JSON.stringify(payload): the defined fields, in order; undefined ones are dropped
Serialize(p) ==
    (IF p.event = Undefined THEN <<>> ELSE << <<"event", p.event>> >>)
    \o (IF p.activity = Undefined THEN <<>> ELSE << <<"activity", p.activity>> >>)
    \o (IF p.conversation = None /\ p.message = None THEN <<>>
        ELSE << <<"data", <<p.conversation, p.message>> >> >>)

\* getSignature(body, secret) of ./utils: the HMAC, as a term over its arguments
getSignature(body, secret) == <<"sha256", secret, body>>

\* A signature argument is a tuple too: <<>> when ingest is given none
SigTruthy(signature) == signature \notin {<<>>, <<"">>}

(***************************************************************************)
(* The machine: the mutable fields of the instance while one operation     *)
(* runs, with what it logged and whether an exception is propagating.      *)
(* captured and hasReplied are the locals of _handleMessage.               *)
(***************************************************************************)
Machine ==
    [conversations |-> conversations, organizations |-> organizations,
     textRegexpCallbacks |-> textRegexpCallbacks,
     replyListenerId |-> replyListenerId, replyListeners |-> replyListeners,
     fetches |-> fetches, asks |-> asks,
     log |-> <<>>, thrown |-> FALSE, captured |-> FALSE, hasReplied |-> FALSE]

\* A log entry.  k: "emit" (EventEmitter emit), "onText" (a text trigger's
\* callback called), "reply" (a reply listener's callback called), "mw" (a
\* receive step run), "fetch" (organizations.get called), "send" (this.send
\* called), "throw" (an exception left the operation), "call" (a method of
\* the actions context called, arg its arguments), "return" (what it returned).
Rec(k, ev, re, id, arg, ctx) ==
    [k |-> k, ev |-> ev, re |-> re, id |-> id, arg |-> arg, ctx |-> ctx]

Logged(m, r) == [m EXCEPT !.log = Append(@, r)]

\* throw: the rest of the operation does not run
Throw(m, what) == [Logged(m, Rec("throw", what, "", 0, None, None)) EXCEPT !.thrown = TRUE]

\* Mutant: the listener stores the snapshot of any conversation
onConversationUpdate_Create(m, event) ==
    [m EXCEPT !.conversations[event.conversation[1].id] = event.conversation]

\* The listener the constructor registers on 'conversation.update'
onConversationUpdate(m, event) ==
    IF event.conversation = None
    THEN Throw(m, "TypeError: event.data.conversation")
    ELSE LET id == event.conversation[1].id
         IN IF id \in ConvIds /\ m.conversations[id] # None
            THEN [m EXCEPT !.conversations[id] = event.conversation]
            ELSE m

\* this.emit(ev, arg, ctx): the subscribers of ev are called with (arg, ctx)
emit(m, ev, arg, ctx) ==
    LET m1 == Logged(m, Rec("emit", ev, "", 0, arg, ctx))
    IN IF ev = UpdateEvent /\ arg[1] = "event"
       THEN onConversationUpdate(m1, arg[2])
       ELSE m1

emitError(m, what) == emit(m, "error", <<"error", what>>, None)

(***************************************************************************)
(* _getActionsObject(convId): the actions context, or {} with an error     *)
(* signal when the conversation is not cached.                             *)
(***************************************************************************)
EmptyCtx == [conversation |-> None, organization |-> None, captured |-> FALSE]

\* String(object), the key this._organizations is indexed with at line 628
ObjectKey == "[object Object]"

\* Mutant: no conversation is ever found in the cache
_getActionsObject_Empty(m, convId) ==
    [m |-> emitError(m, "missing conv"), ctx |-> EmptyCtx]

_getActionsObject(m, convId) ==
    IF convId \notin ConvIds \/ m.conversations[convId] = None
    THEN [m |-> emitError(m, "missing conv"), ctx |-> EmptyCtx]
    ELSE [m |-> m,
          ctx |-> [conversation |-> m.conversations[convId],
                   organization |->
                       IF ObjectKey \in m.organizations
                       THEN <<"resolved", ObjectKey>>
                       ELSE <<"ref", m.conversations[convId][1].organization>>,
                   captured |-> FALSE]]

(***************************************************************************)
(* The Text Trigger Registry and the Reply Correlator.                     *)
(* A text trigger is [regexp, callback]: regexp is [re, src] (a RegExp     *)
(* when re, else a string compared case-insensitively); callback names     *)
(* what the handler does: "plain" only handles the message, "removeSelf"   *)
(* also calls removeTextListener with its own regexp, "throw" throws.      *)
(* A reply listener is [id, chatId, callback]: callback "plain" is a       *)
(* handler given to onReply, "ask" is the closure ask registers.           *)
(***************************************************************************)
Trigger(re, src, cb) == [regexp |-> [re |-> re, src |-> src], callback |-> cb]
ReplyListener(id, chatId, cb) == [id |-> id, chatId |-> chatId, callback |-> cb]

\* String.prototype.toUpperCase, on the strings of the model
toUpperCase(s) ==
    CASE s \in {"hi", "Hi", "HI"} -> "HI"
      [] s \in {"yo", "YO"}       -> "YO"
      [] OTHER                    -> s

\* regexp.exec(text) for a RegExp, the upper-case comparison for a string
TextMatches(regexp, text) ==
    IF regexp.re
    THEN RegExpTest(regexp.src, text)
    ELSE toUpperCase(text) = toUpperCase(regexp.src)

RECURSIVE findTextListener(_, _, _)
\* findIndex(textListener => textListener.regexp === regexp), from index k; 0 for -1
findTextListener(list, regexp, k) ==
    IF k > Len(list) THEN 0
    ELSE IF list[k].regexp = regexp THEN k
    ELSE findTextListener(list, regexp, k + 1)

RECURSIVE findReplyListener(_, _, _)
\* findIndex(replyListener => replyListener.id === replyListenerId), from k; 0 for -1
findReplyListener(list, id, k) ==
    IF k > Len(list) THEN 0
    ELSE IF list[k].id = id THEN k
    ELSE findReplyListener(list, id, k + 1)

removeTextListener(m, regexp) ==
    LET index == findTextListener(m.textRegexpCallbacks, regexp, 1)
    IN IF index = 0 THEN m
       ELSE [m EXCEPT !.textRegexpCallbacks = Splice(@, index)]

removeReplyListener(m, replyListenerId_) ==
    LET index == findReplyListener(m.replyListeners, replyListenerId_, 1)
    IN IF index = 0 THEN m
       ELSE [m EXCEPT !.replyListeners = Splice(@, index)]

\* Mutant: the id is the place in the list, not a counter of its own
onReply_Reuse(m, chatId, cb) ==
    LET id == Len(m.replyListeners) + 1
    IN [m EXCEPT !.replyListenerId = id,
                 !.replyListeners = Append(@, ReplyListener(id, chatId, cb))]

onReply(m, chatId, cb) ==
    LET id == m.replyListenerId + 1
    IN [m EXCEPT !.replyListenerId = id,
                 !.replyListeners = Append(@, ReplyListener(id, chatId, cb))]

\* The context object as the handlers see it now (ctx.captured is set in place)
CtxNow(m, ctx) == [ctx EXCEPT !.captured = m.captured]

\* What a handler that fails throws
HandlerError == "Error: handler"

\* callback(message, ctx) of a text trigger
callTextCallback(m, t, message, ctx) ==
    LET m1 == Logged(m, Rec("onText", "", t.regexp.src, 0,
                            <<"message", message>>, Some(CtxNow(m, ctx))))
    IN IF t.callback = "removeSelf"
       THEN removeTextListener(m1, t.regexp)
       ELSE IF t.callback = "throw"
       THEN Throw(m1, HandlerError)
       ELSE m1

RECURSIVE someTextCallback(_, _, _, _, _)
\* this._textRegexpCallbacks.some(...): index k of the length len read when the
\* call started; an index the array no longer has is skipped
someTextCallback(m, message, ctx, k, len) ==
    IF m.thrown \/ k > len THEN m
    ELSE IF k > Len(m.textRegexpCallbacks)
    THEN someTextCallback(m, message, ctx, k + 1, len)
    ELSE LET t == m.textRegexpCallbacks[k]
         IN IF ~TextMatches(t.regexp, message.text)
            THEN someTextCallback(m, message, ctx, k + 1, len)
            ELSE LET m1 == callTextCallback([m EXCEPT !.captured = TRUE],
                                            t, message, ctx)
                 IN IF onlyFirstMatch THEN m1
                    ELSE someTextCallback(m1, message, ctx, k + 1, len)

\* callback(message) of a reply listener; ask's closure removes its listener,
\* rebuilds the context and calls the handler given to ask
callReplyCallback(m, reply, message) ==
    IF reply.callback = "ask"
    THEN LET m1 == removeReplyListener(m, reply.id)
             g  == _getActionsObject(m1, reply.chatId)
         IN Logged(g.m, Rec("reply", "", "", reply.id,
                            <<"message", message>>, Some(g.ctx)))
    ELSE Logged(m, Rec("reply", "", "", reply.id, <<"message", message>>, None))

\* Mutant: hasReplied stays false
markReplied_Not(m) == m

\* hasReplied = true, line 532
markReplied(m) == [m EXCEPT !.hasReplied = TRUE]

RECURSIVE forEachReplyListener(_, _, _, _)
\* this._replyListeners.forEach(...), with forEach's index semantics
forEachReplyListener(m, message, k, len) ==
    IF m.thrown \/ k > len THEN m
    ELSE IF k > Len(m.replyListeners)
    THEN forEachReplyListener(m, message, k + 1, len)
    ELSE LET reply == m.replyListeners[k]
         IN IF reply.chatId = message.conversation
            THEN forEachReplyListener(
                     markReplied(callReplyCallback(m, reply, message)),
                     message, k + 1, len)
            ELSE forEachReplyListener(m, message, k + 1, len)

\* Mutant: no text begins with ">"
startsWithGt_Never(text) == FALSE

\* /^>/.test(message.text), on the texts of the model
startsWithGt(text) == text \in {">", ">go"}

\* The notify emissions of lines 542-554
emitNotify(m, message, ctx) ==
    LET arg == <<"message", message>>
        m1 == IF message.type = "command" /\ message.text = "/assign"
              THEN IF message.meta = None
                   THEN Throw(m, "TypeError: message.meta.users")
                   ELSE IF BotUser \in message.meta[1].users
                        THEN emit(m, "notify", arg, Some(CtxNow(m, ctx)))
                        ELSE m
              ELSE m
        m2 == IF ~m1.thrown /\ message.type = "command" /\ startsWithGt(message.text)
              THEN emit(m1, "notify", arg, Some(CtxNow(m1, ctx)))
              ELSE m1
    IN IF ~m2.thrown /\ message.type = "mention" /\ message.meta # None
          /\ message.meta[1].targetUser = BotUser
       THEN emit(m2, "notify", arg, Some(CtxNow(m2, ctx)))
       ELSE m2

\* The emissions of _handleMessage under if (!hasReplied)
emitGeneric(m, type, message, ctx) ==
    LET arg == <<"message", message>>
        m1 == emit(m, "message", arg, Some(CtxNow(m, ctx)))
        m2 == emit(m1, type, arg, Some(CtxNow(m1, ctx)))
        m3 == emitNotify(m2, message, ctx)
    IN IF ~m3.thrown /\ StartsWithMessage(type) /\ Truthy(message.role)
       THEN emit(m3, type \o "." \o message.role, arg, Some(CtxNow(m3, ctx)))
       ELSE m3

\* ctx.get("_asked" + auth.user): read from the cache when it is called
questionAsked(m, convId) == m.conversations[convId][1].asked

_handleMessage(m, type, message) ==
    LET g == _getActionsObject(m, message.conversation)
        ctx == g.ctx
        m0 == [g.m EXCEPT !.captured = FALSE, !.hasReplied = FALSE]
    IN IF type # "channel.notify"
          /\ message.type \in {"chat", "postback"}
          /\ Truthy(message.text)
          /\ message.role \in {"contact", "agent"}
       THEN LET m1 == someTextCallback(m0, message, ctx, 1, Len(m0.textRegexpCallbacks))
                m2 == IF m1.thrown THEN m1
                      ELSE IF ctx.conversation = None
                      THEN Throw(m1, "TypeError: ctx.get is not a function")
                      ELSE IF questionAsked(m1, message.conversation)
                      THEN forEachReplyListener(m1, message, 1, Len(m1.replyListeners))
                      ELSE m1
            IN IF ~m2.thrown /\ ~m2.hasReplied
               THEN emitGeneric(m2, type, message, ctx)
               ELSE m2
       ELSE emitGeneric(m0, type, message, ctx)

(***************************************************************************)
(* The receive pipeline and _handleEvent.                                  *)
(***************************************************************************)
\* What a receive step did: `next` when it called next(), `err` when it
\* called next(err)
Step(m, next) == [m |-> m, next |-> next, err |-> FALSE]
Fail(m) == [m |-> m, next |-> FALSE, err |-> TRUE]

\* The steps given in options.middleware.receive and to use(): each either
\* calls next(), returns without calling it, or calls next(err)
ConfiguredSteps == {"cfg.pass", "cfg.stop", "cfg.fail"}
UsedSteps == {"use.pass", "use.stop", "use.fail"}

\* Mutant: the bot's own messages pass
ignoreSelfMiddleware_Pass(m, payload) == Step(m, TRUE)

ignoreSelfMiddleware(m, payload) ==
    IF ~Truthy(payload.event)
    THEN Step(emitError(m, "Invalid payload"), FALSE)
    ELSE IF StartsWithMessage(payload.event)
    THEN IF payload.message = None
         THEN Step(Throw(m, "TypeError: payload.data.message"), FALSE)
         ELSE Step(m, payload.message[1].user # BotUser)
    ELSE Step(m, TRUE)

ignoreBotsMiddleware(m, payload) ==
    IF ~Truthy(payload.event)
    THEN Step(emitError(m, "Invalid payload"), FALSE)
    ELSE IF StartsWithMessage(payload.event)
    THEN IF payload.message = None
         THEN Step(Throw(m, "TypeError: payload.data.message"), FALSE)
         ELSE Step(m, payload.message[1].role # "bot")
    ELSE Step(m, TRUE)

\* Mutant: every step calls next()
runStep_Pass(m, name, payload) == Step(Logged(m, Rec("mw", name, "", 0, None, None)), TRUE)

\* One step of the stack, by name
runStep(m, name, payload) ==
    LET m1 == Logged(m, Rec("mw", name, "", 0, None, None))
    IN CASE name = "ignoreSelf" -> ignoreSelfMiddleware(m1, payload)
         [] name = "ignoreBots" -> ignoreBotsMiddleware(m1, payload)
         [] name \in {"cfg.stop", "use.stop"} -> Step(m1, FALSE)
         [] name \in {"cfg.fail", "use.fail"} -> Fail(m1)
         [] OTHER               -> Step(m1, TRUE)

RECURSIVE runReceive(_, _, _)
\* this.middleware.receive.run([this, event], done): the steps in order, each
\* reached only if the one before called next(); TRUE when done is reached
runReceive(m, payload, k) ==
    IF k > Len(receive) THEN Step(m, TRUE)
    ELSE LET r == runStep(m, receive[k], payload)
         IN IF r.next /\ ~r.m.thrown THEN runReceive(r.m, payload, k + 1)
            ELSE IF r.err THEN Fail(r.m)
            ELSE Step(r.m, FALSE)

\* Mutant: the 'activity' emission carries the whole event
activityArg_Event(event) == <<"event", event>>

\* event.activity, the argument of the 'activity' emission (line 472)
activityArg(event) ==
    IF event.activity = Undefined THEN <<"undefined">>
    ELSE <<"activity", event.activity>>

_handleEvent(m, type, event) ==
    LET r == runReceive(m, event, 1)
    IN IF r.err /\ ~r.m.thrown
       THEN emitError(r.m, "middleware receive processing error")
       ELSE IF ~r.next THEN r.m
       ELSE LET m1 == emit(r.m, "activity", activityArg(event), None)
            IN IF m1.thrown THEN m1
               ELSE IF StartsWithMessage(type) /\ event.message # None
               THEN _handleMessage(m1, type, event.message[1])
               ELSE emit(m1, type, <<"event", event>>, None)

(***************************************************************************)
(* ingest(payload, signature)                                              *)
(***************************************************************************)
\* Mutant: the signature is never compared
signatureAccepted_Skip(payload, signature) == TRUE

\* The signature check of lines 406-412: TRUE when ingest goes on
signatureAccepted(payload, signature) ==
    ~SigTruthy(signature)
    \/ getSignature(Serialize(payload), Secret) = signature

\* Mutant: a payload without an event passes
hasEvent_Any(payload) == TRUE

\* The event check of line 413, negated
hasEvent(payload) == Truthy(payload.event)

\* The shape check of line 421
hasConversation(payload) ==
    payload.conversation # None /\ Truthy(payload.conversation[1].id)

\* The preload condition of lines 430-431
needsPreload(m, payload) ==
    payload.conversation[1].organization \notin m.organizations
    /\ preloadOrganizations

\* Mutant: while a fetch is outstanding an ingested event is not dispatched
ingest_Blocking(m, payload, signature) ==
    IF m.fetches # <<>> \/ ~hasEvent(payload) THEN m
    ELSE IF StartsWithMessage(payload.event) /\ hasConversation(payload)
            /\ needsPreload(m, payload)
    THEN [Logged(m, Rec("fetch", payload.conversation[1].organization,
                        "", 0, None, None))
          EXCEPT !.fetches = Append(@, payload)]
    ELSE _handleEvent(m, payload.event, payload)

ingest(m, payload, signature) ==
    IF ~signatureAccepted(payload, signature)
    THEN emitError(m, "Message integrity check failed")
    ELSE IF ~hasEvent(payload)
    THEN emitError(m, "Invalid payload, missing event")
    ELSE IF StartsWithMessage(payload.event)
    THEN IF ~hasConversation(payload)
         THEN emitError(m, "Invalid payload, missing conversation")
         ELSE LET m1 == [m EXCEPT
                           !.conversations[payload.conversation[1].id] =
                               payload.conversation]
              IN IF needsPreload(m1, payload)
                 THEN [Logged(m1, Rec("fetch", payload.conversation[1].organization,
                                      "", 0, None, None))
                       EXCEPT !.fetches = Append(@, payload)]
                 ELSE _handleEvent(m1, payload.event, payload)
    ELSE IF payload.activity # Undefined
    THEN _handleEvent(m, payload.event, payload)
    ELSE m

\* The then / catch continuations of the organization fetch, lines 435-444
fetchResolved(m, payload) ==
    LET org == payload.conversation[1].organization
        m1 == [m EXCEPT !.organizations = @ \cup {org}]
        m2 == _handleEvent(m1, payload.event, payload)
    IN IF m2.thrown
       THEN emitError([m2 EXCEPT !.thrown = FALSE], "Could not load organization")
       ELSE m2

\* Mutant: the event is dispatched after the failed fetch too
fetchRejected_Dispatch(m, payload) ==
    _handleEvent(emitError(m, "Could not load organization"), payload.event, payload)

fetchRejected(m, payload) == emitError(m, "Could not load organization")

(***************************************************************************)
(* ask(q, cb) of the actions context: the send, and its callback           *)
(***************************************************************************)
send(m, convId, text) == Logged(m, Rec("send", convId, "", 0, <<"text", text>>, None))

\* ctx.say(text), say being this.send bound to the convId the context was
\* built for (line 630); the empty context has no say
say(m, ctx, text) ==
    IF ctx.conversation = None
    THEN Throw(m, "TypeError: c.say is not a function")
    ELSE send(m, ctx.conversation[1].id, text)

ask(m, convId) == [send(m, convId, "Q?") EXCEPT !.asks = Append(@, convId)]

askSent(m, convId, e) ==
    IF e THEN emitError(m, "send failed")
    ELSE onReply(send(m, convId, "/set _asked"), convId, "ask")

(***************************************************************************)
(* set(key, val) and get(key) of the actions context (lines 636-652).  The *)
(* cached snapshot's fields other than id, organization and the marker are *)
(* its `data`, an object; "meta" is one of them.  Both closures read       *)
(* this._conversations[convId] when they are called.                       *)
(***************************************************************************)
Meta == Key(FALSE, "meta")

\* o[k] = v
Put(o, k, v) == [x \in DOMAIN o \cup {k} |-> IF x = k THEN v ELSE o[x]]

set(m, convId, key, val) ==
    LET conversation == m.conversations[convId][1].data
        field == Key(FALSE, key.name)
        written ==
            IF key.at /\ JsTruthy(Prop(conversation, field))
            THEN Put(conversation, field, val)
            ELSE IF JsTruthy(Prop(conversation, Meta))
            THEN Put(conversation, Meta, JsObj(Put(conversation[Meta][2], key, val)))
            ELSE conversation
        m1 == Logged(m, Rec("call", "set", "", 0, <<key, val>>, None))
    IN send([m1 EXCEPT !.conversations[convId] = Some([@[1] EXCEPT !.data = written])],
            convId, <<"/set", key, val>>)

get(m, convId, key) ==
    LET conversation == m.conversations[convId][1].data
        field == Key(FALSE, key.name)
        value ==
            IF key.at /\ Prop(conversation, field) # JsUndef
            THEN Prop(conversation, field)
            ELSE IF JsTruthy(Prop(conversation, Meta))
            THEN Prop(conversation[Meta][2], key)
            ELSE JsUndef
    IN Logged(Logged(m, Rec("call", "get", "", 0, <<key>>, None)),
              Rec("return", "get", "", 0, <<value>>, None))

(***************************************************************************)
(* The actions.                                                            *)
(***************************************************************************)
Commit(m, o) ==
    /\ conversations' = m.conversations
    /\ organizations' = m.organizations
    /\ textRegexpCallbacks' = m.textRegexpCallbacks
    /\ replyListenerId' = m.replyListenerId
    /\ replyListeners' = m.replyListeners
    /\ fetches' = m.fetches
    /\ asks' = m.asks
    /\ log' = m.log
    /\ op' = o
    /\ UNCHANGED <<ignoreSelf, ignoreBots, onlyFirstMatch, preloadOrganizations,
                   receive, matchArgs, matchResult>>

Op(name, payload, signature, thrown) ==
    [name |-> name, payload |-> payload, signature |-> signature, thrown |-> thrown]

Ingest(payload, signature) ==
    LET m == ingest(Machine, payload, signature)
    IN /\ Len(m.fetches) <= MaxFetches
       /\ Commit(m, Op("ingest", Some(payload), signature, m.thrown))

FetchResolved(i) ==
    /\ i \in DOMAIN fetches
    /\ LET m == fetchResolved([Machine EXCEPT !.fetches = Splice(@, i)], fetches[i])
       IN Commit(m, Op("fetch.then", Some(fetches[i]), None, m.thrown))

FetchRejected(i) ==
    /\ i \in DOMAIN fetches
    /\ LET m == fetchRejected([Machine EXCEPT !.fetches = Splice(@, i)], fetches[i])
       IN Commit(m, Op("fetch.catch", Some(fetches[i]), None, m.thrown))

OnText(t) ==
    /\ Len(textRegexpCallbacks) < MaxTriggers
    /\ Commit([Machine EXCEPT !.textRegexpCallbacks = Append(@, t)],
              Op("onText", None, None, FALSE))

RemoveTextListener(regexp) ==
    /\ \E k \in DOMAIN textRegexpCallbacks : textRegexpCallbacks[k].regexp = regexp
    /\ Commit(removeTextListener(Machine, regexp),
              Op("removeTextListener", None, None, FALSE))

OnReply(chatId) ==
    /\ Len(replyListeners) < MaxListeners
    /\ replyListenerId < MaxReplyId
    /\ Commit(onReply(Machine, chatId, "plain"), Op("onReply", None, None, FALSE))

RemoveReplyListener(id) ==
    /\ \E k \in DOMAIN replyListeners : replyListeners[k].id = id
    /\ Commit(removeReplyListener(Machine, id),
              Op("removeReplyListener", None, None, FALSE))

Ask(convId) ==
    /\ conversations[convId] # None
    /\ Len(asks) < MaxAsks
    /\ Commit(ask(Machine, convId), Op("ask", None, None, FALSE))

\* use(step): the step goes to the end of the receive stack
Use(step) ==
    /\ Len(receive) < MaxSteps
    /\ receive' = Append(receive, step)
    /\ op' = Op("use", None, None, FALSE)
    /\ log' = <<>>
    /\ UNCHANGED <<ignoreSelf, ignoreBots, onlyFirstMatch, preloadOrganizations,
                   conversations, organizations, textRegexpCallbacks,
                   replyListenerId, replyListeners, fetches, asks,
                   matchArgs, matchResult>>

\* A subscriber of 'message' calls say(text) on the context it was given in
\* the last dispatch
Say(text) ==
    /\ op.name = "ingest"
    /\ \E i \in DOMAIN log :
         /\ log[i].k = "emit" /\ log[i].ev = "message"
         /\ LET m == say(Machine, log[i].ctx[1], text)
            IN Commit(m, Op("say", Some(log[i].arg[2]), None, m.thrown))

AskSent(i, e) ==
    /\ i \in DOMAIN asks
    /\ e \/ (Len(replyListeners) < MaxListeners /\ replyListenerId < MaxReplyId)
    /\ Commit(askSent([Machine EXCEPT !.asks = Splice(@, i)], asks[i], e),
              Op("ask.sent", None, None, FALSE))

\* A handler calls set(key, val) on the actions context of a cached conversation
Set(convId, key, val) ==
    /\ conversations[convId] # None
    /\ Commit(set(Machine, convId, key, val), Op("set", None, None, FALSE))

\* A handler calls get(key) on the actions context of a cached conversation
Get(convId, key) ==
    /\ conversations[convId] # None
    /\ Commit(get(Machine, convId, key), Op("get", None, None, FALSE))

(***************************************************************************)
(* Init: the state the constructor leaves.  Each specification below runs   *)
(* the same operations on one part of the engine, with the options, the    *)
(* payloads and the registrations that part needs.                         *)
(***************************************************************************)
\* The receive stack the constructor builds (lines 199-206)
receiveStack(self, bots) ==
    (IF self THEN <<"ignoreSelf">> ELSE <<>>) \o (IF bots THEN <<"ignoreBots">> ELSE <<>>)

\* The constructor, with the options drawn from the given sets; `configured`
\* are the values of options.middleware.receive, each a list of steps
constructor(selfs, botss, firsts, preloads, configured) ==
    /\ ignoreSelf \in selfs
    /\ ignoreBots \in botss
    /\ onlyFirstMatch \in firsts
    /\ preloadOrganizations \in preloads
    /\ \E steps \in configured : receive = receiveStack(ignoreSelf, ignoreBots) \o steps
    /\ conversations = [c \in ConvIds |-> None]
    /\ organizations = {}
    /\ textRegexpCallbacks = <<>>
    /\ replyListenerId = 0
    /\ replyListeners = <<>>
    /\ fetches = <<>>
    /\ asks = <<>>
    /\ op = Op("new", None, None, FALSE)
    /\ log = <<>>

\* No call of match is under way
NoMatch == matchArgs = None /\ matchResult = None

Hi(c)  == Message(c, "u1", "contact", "chat", "hi")
Snap(c, asked) == Some(Conversation(c, IF c = "c1" THEN "o1" ELSE "o2", asked))
NoSignature == <<>>
\* A snapshot with one more field, name
Named(c, org, name) ==
    Some([id |-> c, organization |-> org, asked |-> FALSE, name |-> name])

(***************************************************************************)
(* Spec: dispatch.  Any ignoreSelf / ignoreBots / onlyFirstMatch, no       *)
(* preloading; text triggers and onReply listeners on conversation c1;     *)
(* messages of every user and role.                                        *)
(***************************************************************************)
DispatchMessages ==
    {Message("c1", u, r, "chat", "hi") : u \in {BotUser, "u1"}, r \in {"contact", "bot"}}
    \cup {Message("c1", "u1", "contact", "chat", "yo"),
          Message("c1", "u1", "contact", "chat", ""),
          Message("c1", "u1", "contact", "command", "hi"),
          Message("c1", "u1", "agent", "postback", "hi")}

DispatchPayloads ==
    {Payload(MessageEvent, Undefined, Snap("c1", a), Some(msg)) :
        a \in BOOLEAN, msg \in DispatchMessages}
    \cup {Payload(MessageEvent, Undefined, Snap("c1", TRUE), Some(Hi("c2"))),
          Payload(UpdateEvent, "act", Snap("c1", FALSE), None)}

Triggers == {Trigger(FALSE, "Hi", "plain"), Trigger(FALSE, "Hi", "removeSelf"),
             Trigger(TRUE, "^h", "plain")}

Init == constructor(BOOLEAN, BOOLEAN, BOOLEAN, {FALSE}, {<<>>}) /\ NoMatch

Next ==
    \/ \E p \in DispatchPayloads : Ingest(p, NoSignature)
    \/ \E t \in Triggers : OnText(t)
    \/ OnReply("c1")

Spec == Init /\ [][Next]_vars

(***************************************************************************)
(* SpecGate: the ingestion gate.  Any ignoreSelf / ignoreBots /            *)
(* preloadOrganizations; well-formed and malformed payloads, each with no  *)
(* signature, an empty one, the right one and a wrong one.  One snapshot   *)
(* of c1 has a field (`name`) the others do not have.                      *)
(***************************************************************************)
GatePayloads ==
    {Payload(MessageEvent, Undefined, Snap("c1", TRUE), Some(Hi("c1"))),
     Payload(MessageEvent, Undefined, Named("c1", "o1", "old"), Some(Hi("c1"))),
     Payload(MessageEvent, Undefined, Snap("c2", FALSE),
             Some(Message("c2", BotUser, "bot", "chat", "hi"))),
     \* no event
     Payload(Undefined, Undefined, Snap("c1", TRUE), Some(Hi("c1"))),
     Payload(Undefined, "act", None, None),
     Payload("", Undefined, Snap("c1", TRUE), Some(Hi("c1"))),
     \* message-shaped, no data.conversation / no data.conversation.id
     Payload(MessageEvent, Undefined, None, Some(Hi("c1"))),
     Payload(MessageEvent, Undefined, Some(Conversation(Undefined, "o1", FALSE)),
             Some(Hi("c1"))),
     \* message-shaped, no data.message
     Payload(MessageEvent, Undefined, Snap("c1", TRUE), None),
     \* resource activity, and an event of neither shape
     Payload(UpdateEvent, "act", Snap("c1", FALSE), None),
     Payload("user.create", "act", None, None),
     Payload("user.create", Undefined, None, None)}

\* The signature arguments tried with a payload: none, the empty string, the
\* HMAC under the bot's secret, and the HMAC under another secret
Signatures(p) ==
    {NoSignature, <<"">>, getSignature(Serialize(p), Secret),
     getSignature(Serialize(p), "other")}

InitGate == constructor(BOOLEAN, BOOLEAN, {FALSE}, BOOLEAN, {<<>>}) /\ NoMatch

NextGate ==
    \/ \E p \in GatePayloads : \E sig \in Signatures(p) : Ingest(p, sig)
    \/ \E i \in 1..MaxFetches : FetchResolved(i)
    \/ \E i \in 1..MaxFetches : FetchRejected(i)

SpecGate == InitGate /\ [][NextGate]_vars

(***************************************************************************)
(* SpecTrig: the Text Trigger Registry.  Any onlyFirstMatch; triggers that *)
(* match "hi" and handlers that remove their own trigger.                  *)
(***************************************************************************)
TrigPayloads ==
    {Payload(MessageEvent, Undefined, Snap("c1", FALSE), Some(msg)) :
        msg \in {Hi("c1"), Message("c1", "u1", "contact", "chat", "yo"),
                 Message("c1", "u1", "contact", "command", "hi")}}

InitTrig == constructor({TRUE}, {TRUE}, BOOLEAN, {FALSE}, {<<>>}) /\ NoMatch

NextTrig ==
    \/ \E p \in TrigPayloads : Ingest(p, NoSignature)
    \/ \E t \in Triggers \cup {Trigger(TRUE, "^h", "removeSelf")} : OnText(t)
    \/ \E t \in Triggers : RemoveTextListener(t.regexp)

SpecTrig == InitTrig /\ [][NextTrig]_vars

(***************************************************************************)
(* SpecReply: the Reply Correlator.  Default options; onReply, ask and     *)
(* removeReplyListener on two conversations; messages with and without the *)
(* awaiting-answer marker.                                                 *)
(***************************************************************************)
ReplyPayloads ==
    UNION {{Payload(MessageEvent, Undefined, Snap(c, a), Some(Hi(c))),
            Payload(MessageEvent, Undefined, Snap(c, a),
                    Some(Message(c, "u1", "contact", "command", "hi")))} :
           c \in ConvIds, a \in BOOLEAN}

InitReply == constructor({TRUE}, {TRUE}, {FALSE}, {FALSE}, {<<>>}) /\ NoMatch

NextReply ==
    \/ \E p \in ReplyPayloads : Ingest(p, NoSignature)
    \/ \E c \in ConvIds : OnReply(c)
    \/ \E id \in 1..MaxReplyId : RemoveReplyListener(id)
    \/ \E c \in ConvIds : Ask(c)
    \/ \E i \in 1..MaxAsks : \E e \in BOOLEAN : AskSent(i, e)

SpecReply == InitReply /\ [][NextReply]_vars

(***************************************************************************)
(* SpecPipe: the receive pipeline.  Any ignoreSelf / ignoreBots, no, one   *)
(* passing, one stopping or one failing configured step, and steps added   *)
(* with use; a message the filters let through, a message of the bot, and  *)
(* a resource activity.                                                    *)
(***************************************************************************)
PipePayloads ==
    {Payload(MessageEvent, Undefined, Snap("c1", FALSE), Some(Hi("c1"))),
     Payload(MessageEvent, Undefined, Snap("c1", FALSE),
             Some(Message("c1", BotUser, "bot", "chat", "hi"))),
     Payload(UpdateEvent, "act", Snap("c1", FALSE), None)}

InitPipe ==
    /\ constructor(BOOLEAN, BOOLEAN, {FALSE}, {FALSE},
                   {<<>>} \cup {<<step>> : step \in ConfiguredSteps})
    /\ NoMatch

NextPipe ==
    \/ \E p \in PipePayloads : Ingest(p, NoSignature)
    \/ \E step \in UsedSteps : Use(step)

SpecPipe == InitPipe /\ [][NextPipe]_vars

(***************************************************************************)
(* SpecSay: messages of the bot itself with ignoreSelf off.  Any           *)
(* ignoreBots; the bot's messages with role contact and bot, with and      *)
(* without the awaiting-answer marker, one of a conversation that is not   *)
(* cached; onReply listeners; a 'message' subscriber that calls say.       *)
(***************************************************************************)
SayPayloads ==
    {Payload(MessageEvent, Undefined, Snap("c1", a), Some(Message("c1", BotUser, r, "chat", "hi"))) :
        a \in BOOLEAN, r \in {"contact", "bot"}}
    \cup {Payload(MessageEvent, Undefined, Snap("c1", FALSE),
                  Some(Message("c2", BotUser, "contact", "command", "hi")))}

InitSay == constructor({FALSE}, BOOLEAN, {FALSE}, {FALSE}, {<<>>}) /\ NoMatch

NextSay ==
    \/ \E p \in SayPayloads : Ingest(p, NoSignature)
    \/ \E c \in ConvIds : OnReply(c)
    \/ Say("hi there bot")

SpecSay == InitSay /\ [][NextSay]_vars

(***************************************************************************)
(* SpecThrow: handlers that throw.  Default filters, with and without      *)
(* preloading; text triggers whose handler throws or returns; chat         *)
(* messages that match them and one that does not.                         *)
(***************************************************************************)
ThrowPayloads ==
    {Payload(MessageEvent, Undefined, Snap(c, FALSE), Some(Hi(c))) : c \in ConvIds}
    \cup {Payload(MessageEvent, Undefined, Snap("c1", FALSE),
                  Some(Message("c1", "u1", "contact", "chat", "yo")))}

InitThrow == constructor({TRUE}, {TRUE}, {FALSE}, BOOLEAN, {<<>>}) /\ NoMatch

NextThrow ==
    \/ \E p \in ThrowPayloads : Ingest(p, NoSignature)
    \/ \E cb \in {"plain", "throw"} : OnText(Trigger(FALSE, "Hi", cb))
    \/ \E i \in 1..MaxFetches : FetchResolved(i)
    \/ \E i \in 1..MaxFetches : FetchRejected(i)

SpecThrow == InitThrow /\ [][NextThrow]_vars

(***************************************************************************)
(* SpecMatch: the Conditional Matcher alone.  match is applied to contexts  *)
(* with and without an organization and metadata, messages with and        *)
(* without an "@organization" field and a role, and the conditionals maps  *)
(* {}, {"@organization": "123"}, {"@organization": ["123", "456"]},        *)
(* {"@organization": /^1/}, {"@organization": /und/} and                   *)
(* {"@organization": "123", "role": "agent"}.                              *)
(***************************************************************************)
\* The object with the given fields: a set of <<key, value>>
Object(fields) ==
    [k \in {f[1] : f \in fields} |-> (CHOOSE f \in fields : f[1] = k)[2]]

AtOrganization == Key(TRUE, "organization")

\* c.organization / m["@organization"] / c.meta["@organization"]: absent or a value
OrganizationValues == {JsStr("123"), JsStr("456"), JsStr(""), JsNum(123)}
Field(key, values) == {{}} \cup {{<<key, v>>} : v \in values}

Role == Key(FALSE, "role")

MatchContexts ==
    {Object(o \cup meta) :
        o \in Field(Key(FALSE, "organization"), OrganizationValues),
        meta \in Field(Key(FALSE, "meta"),
                       {JsObj(Object(f)) :
                           f \in Field(AtOrganization, {JsStr("123"), JsStr("456")})
                                 \cup {{<<Role, JsStr("agent")>>}}})}

MatchMessages ==
    {Object(f \cup r) :
        f \in Field(AtOrganization, {JsStr("123"), JsStr("456"), JsStr("")}),
        r \in Field(Role, {JsStr("agent"), JsStr("contact")})}

\* A conditionals map with its Object.keys
MatchConditionals ==
    {[map |-> Object({}), keys |-> <<>>],
     [map |-> Object({<<AtOrganization, JsStr("123")>>}), keys |-> <<AtOrganization>>],
     [map |-> Object({<<AtOrganization, JsArr(<<JsStr("123"), JsStr("456")>>)>>}),
      keys |-> <<AtOrganization>>],
     [map |-> Object({<<AtOrganization, JsRe("^1")>>}), keys |-> <<AtOrganization>>],
     [map |-> Object({<<AtOrganization, JsRe("und")>>}), keys |-> <<AtOrganization>>],
     [map |-> Object({<<AtOrganization, JsStr("123")>>, <<Role, JsStr("agent")>>}),
      keys |-> <<AtOrganization, Role>>]}

MatchInputs ==
    {[c |-> c, m |-> m, conditionals |-> cond.map, keys |-> cond.keys] :
        c \in MatchContexts, m \in MatchMessages, cond \in MatchConditionals}

\* match(c, m, conditionals) is called with the arguments drawn at the start
Match ==
    /\ matchArgs # None /\ matchResult = None
    /\ matchResult' = Some(match(matchArgs[1].c, matchArgs[1].m,
                                 matchArgs[1].conditionals, matchArgs[1].keys))
    /\ UNCHANGED <<ignoreSelf, ignoreBots, onlyFirstMatch, preloadOrganizations,
                   receive, conversations, organizations, textRegexpCallbacks,
                   replyListenerId, replyListeners, fetches, asks, op, log, matchArgs>>

InitMatch ==
    /\ constructor({TRUE}, {TRUE}, {FALSE}, {FALSE}, {<<>>})
    /\ matchArgs \in {Some(a) : a \in MatchInputs}
    /\ matchResult = None

NextMatch == Match

SpecMatch == InitMatch /\ [][NextMatch]_vars

(***************************************************************************)
(* SpecKv: set and get of the actions context.  Default options; one       *)
(* conversation, whose snapshot has a `name` that is absent, empty, zero   *)
(* or a string, and a metadata map that is absent, empty or has an entry;  *)
(* the keys "@name" and "color"; the values "v", "" and 0.                 *)
(***************************************************************************)
KvNames == Field(Key(FALSE, "name"), {JsStr(""), JsStr("old"), JsNum(0)})
KvMetas ==
    Field(Meta, {JsObj(Object({})),
                 JsObj(Object({<<Key(FALSE, "color"), JsStr("red")>>})),
                 JsObj(Object({<<Key(TRUE, "name"), JsStr("m")>>}))})
KvKeys == {Key(TRUE, "name"), Key(FALSE, "color")}
KvValues == {JsStr("v"), JsStr(""), JsNum(0)}

\* The snapshot of conversation c1 with the given other fields
KvSnap(data) ==
    Some([id |-> "c1", organization |-> "o1", asked |-> FALSE, data |-> data])

KvPayloads ==
    {Payload(MessageEvent, Undefined, KvSnap(Object(n \cup meta)), Some(Hi("c1"))) :
        n \in KvNames, meta \in KvMetas}

InitKv == constructor({TRUE}, {TRUE}, {FALSE}, {FALSE}, {<<>>}) /\ NoMatch

NextKv ==
    \/ \E p \in KvPayloads : Ingest(p, NoSignature)
    \/ \E key \in KvKeys, val \in KvValues : Set("c1", key, val)
    \/ \E key \in KvKeys : Get("c1", key)

SpecKv == InitKv /\ [][NextKv]_vars

(***************************************************************************)
(* SpecNotify: the notify emission.  Default filters, no preloading; one   *)
(* conversation, with and without the awaiting-answer marker; commands     *)
(* "/assign" with and without target users, commands ">go" and "hi",       *)
(* mentions with and without a target user, chat messages "hi" and ">go";  *)
(* onReply listeners.                                                      *)
(***************************************************************************)
\* The message with message.meta = {users, targetUser}
WithMeta(message, users, targetUser) ==
    [message EXCEPT !.meta = Some([users |-> users, targetUser |-> targetUser])]

NotifyMessages ==
    {WithMeta(Message("c1", "u1", "agent", "command", "/assign"), u, Undefined) :
        u \in {{BotUser}, {"u2"}, {"u2", BotUser}}}
    \cup {Message("c1", "u1", "agent", "command", t) : t \in {"/assign", ">go", "hi"}}
    \cup {WithMeta(Message("c1", "u1", "agent", "mention", "hi"), {}, t) :
             t \in {BotUser, "u2"}}
    \cup {Message("c1", "u1", "agent", "mention", "hi")}
    \cup {Message("c1", "u1", "contact", "chat", t) : t \in {"hi", ">go"}}

NotifyPayloads ==
    {Payload(MessageEvent, Undefined, Snap("c1", a), Some(msg)) :
        a \in BOOLEAN, msg \in NotifyMessages}

InitNotify == constructor({TRUE}, {TRUE}, {FALSE}, {FALSE}, {<<>>}) /\ NoMatch

NextNotify ==
    \/ \E p \in NotifyPayloads : Ingest(p, NoSignature)
    \/ \E c \in ConvIds : OnReply(c)

SpecNotify == InitNotify /\ [][NextNotify]_vars

(***************************************************************************)
(* SpecOrder: the order of dispatch.  Default filters, with and without    *)
(* preloading; two messages of conversation c1 and one of c2; the fetches  *)
(* settle in any order.                                                    *)
(***************************************************************************)
OrderPayloads ==
    {Payload(MessageEvent, Undefined, Snap("c1", FALSE), Some(Hi("c1"))),
     Payload(MessageEvent, Undefined, Snap("c1", FALSE),
             Some(Message("c1", "u1", "contact", "chat", "yo"))),
     Payload(MessageEvent, Undefined, Snap("c2", FALSE), Some(Hi("c2")))}

InitOrder == constructor({TRUE}, {TRUE}, {FALSE}, BOOLEAN, {<<>>}) /\ NoMatch

NextOrder ==
    \/ \E p \in OrderPayloads : Ingest(p, NoSignature)
    \/ \E i \in 1..MaxFetches : FetchResolved(i)
    \/ \E i \in 1..MaxFetches : FetchRejected(i)

SpecOrder == InitOrder /\ [][NextOrder]_vars

(***************************************************************************)
(* Properties.  What the last operation did is read from op and log; a     *)
(* property that compares the state before and after an operation is an    *)
(* action property.                                                        *)
(***************************************************************************)
\* The emissions of event ev in a log
Emissions(l, ev) == SelectSeq(l, LAMBDA e : e.k = "emit" /\ e.ev = ev)
\* The handler calls of kind k ("onText", "reply") in a log
Calls(l, k) == SelectSeq(l, LAMBDA e : e.k = k)
\* The entries of a log that dispatch something: a receive step, a fetch, an
\* emission other than 'error', a handler call
Dispatched(l) ==
    SelectSeq(l, LAMBDA e : e.k \in {"mw", "fetch", "onText", "reply", "send"}
                            \/ (e.k = "emit" /\ e.ev # "error"))
ErrorSignal(what) == Rec("emit", "error", "", 0, <<"error", what>>, None)

\* ingest was given a signature that is not the HMAC of the payload
BadSignature(o) ==
    /\ SigTruthy(o.signature)
    /\ o.signature # getSignature(Serialize(o.payload[1]), Secret)

CachesUnchanged ==
    UNCHANGED <<conversations, organizations, fetches, textRegexpCallbacks,
                replyListeners, replyListenerId, asks>>

\* C1: an ingest whose signature differs from the HMAC of the serialized
\* payload under the secret emits the integrity error and nothing else: no
\* receive step, no fetch, no emission, no handler call; the caches and the
\* fetches in flight are what they were.
C1_IntegrityReject ==
    [][(op'.name = "ingest" /\ BadSignature(op'))
         => /\ log' = <<ErrorSignal("Message integrity check failed")>>
            /\ CachesUnchanged]_vars

\* C1 witness: a well-formed message payload, which would have started a
\* fetch, was rejected for its signature
C1_Witness ==
    /\ op.name = "ingest" /\ BadSignature(op)
    /\ op.payload[1] = Payload(MessageEvent, Undefined, Snap("c1", TRUE), Some(Hi("c1")))
    /\ preloadOrganizations /\ organizations = {} /\ fetches = <<>>
    /\ conversations["c1"] = None
    /\ log = <<ErrorSignal("Message integrity check failed")>>

\* C2 as stated: every ingest of a payload without an event emits exactly
\* the missing-event error and dispatches nothing.
C2_Original ==
    [][(op'.name = "ingest" /\ ~Truthy(op'.payload[1].event))
         => /\ log' = <<ErrorSignal("Invalid payload, missing event")>>
            /\ CachesUnchanged]_vars

\* C2 amended: an ingest of a payload without an event, given no signature
\* or the matching one, emits exactly the missing-event error and dispatches
\* nothing.
C2_MissingEvent ==
    [][(op'.name = "ingest" /\ ~Truthy(op'.payload[1].event) /\ ~BadSignature(op'))
         => /\ log' = <<ErrorSignal("Invalid payload, missing event")>>
            /\ CachesUnchanged]_vars

\* C2 witness: a payload with an activity marker and no event, unsigned
C2_Witness ==
    /\ op.name = "ingest" /\ op.signature = NoSignature
    /\ op.payload[1] = Payload(Undefined, "act", None, None)
    /\ log = <<ErrorSignal("Invalid payload, missing event")>>

\* C10 as stated: a message-shaped payload without a conversation reference
\* or without a message body is rejected with one error signal, the
\* conversation cache is not updated and no activity or typed event is
\* emitted.
C10_Claim ==
    [][(/\ op'.name = "ingest" /\ ~BadSignature(op')
        /\ StartsWithMessage(op'.payload[1].event)
        /\ (~hasConversation(op'.payload[1]) \/ op'.payload[1].message = None))
         => /\ Len(log') = 1 /\ log'[1].k = "emit" /\ log'[1].ev = "error"
            /\ conversations' = conversations]_vars

\* The message of the last ingest, when its payload has one
IngestedMessage == op.payload[1].message[1]
IngestOfMessage ==
    /\ op.name = "ingest"
    /\ StartsWithMessage(op.payload[1].event)
    /\ op.payload[1].message # None

\* The emissions of a log that carry a message
MessageEmissions(l) == SelectSeq(l, LAMBDA e : e.k = "emit" /\ e.arg # None /\ e.arg[1] = "message")

\* C3: an ingested message whose user is the bot (ignoreSelf on) or whose
\* role is "bot" (ignoreBots on) reaches nothing: in that ingest no text
\* trigger is called, no reply listener is called and nothing is emitted.
C3_Filtered ==
    (/\ IngestOfMessage
     /\ \/ ignoreSelf /\ IngestedMessage.user = BotUser
        \/ ignoreBots /\ IngestedMessage.role = "bot")
      => \A i \in DOMAIN log : log[i].k \notin {"onText", "reply", "emit"}

\* C3 witness: with both filters on, a chat message "hi" of the bot itself in
\* a conversation awaiting an answer, with a matching trigger and a reply
\* listener registered, stopped at the first receive step
C3_Witness ==
    /\ IngestOfMessage /\ ignoreSelf /\ ignoreBots
    /\ IngestedMessage = Message("c1", BotUser, "contact", "chat", "hi")
    /\ op.payload[1].conversation[1].asked
    /\ \E k \in DOMAIN textRegexpCallbacks :
          TextMatches(textRegexpCallbacks[k].regexp, "hi")
    /\ \E k \in DOMAIN replyListeners : replyListeners[k].chatId = "c1"
    /\ log = <<Rec("mw", "ignoreSelf", "", 0, None, None)>>

E2EPayload == Payload(MessageEvent, Undefined, Snap("c1", FALSE), Some(Hi("c1")))
E2ECtx ==
    Some([conversation |-> Snap("c1", FALSE), organization |-> <<"ref", "o1">>,
          captured |-> FALSE])
\* The step the scenario is: the filters off, nothing registered, the payload ingested
E2EStep ==
    /\ ~ignoreSelf /\ ~ignoreBots
    /\ textRegexpCallbacks = <<>> /\ replyListeners = <<>>
    /\ op'.name = "ingest" /\ op'.payload = Some(E2EPayload)

\* C8 as stated: the scenario emits 'activity', 'message' and the typed
\* event once each, each carrying the message.
C8_Original ==
    [][E2EStep =>
         /\ Emissions(log', "activity")
              = <<Rec("emit", "activity", "", 0, <<"message", Hi("c1")>>, None)>>
         /\ Emissions(log', "message")
              = <<Rec("emit", "message", "", 0, <<"message", Hi("c1")>>, E2ECtx)>>
         /\ Emissions(log', MessageEvent)
              = <<Rec("emit", MessageEvent, "", 0, <<"message", Hi("c1")>>, E2ECtx)>>]_vars

\* C8 amended: the scenario emits 'activity' once, carrying the payload's
\* activity field (undefined for this payload), and 'message' and the typed
\* event once each, both carrying the message and the actions context.
C8_EndToEnd ==
    [][E2EStep =>
         /\ Emissions(log', "activity")
              = <<Rec("emit", "activity", "", 0, <<"undefined">>, None)>>
         /\ Emissions(log', "message")
              = <<Rec("emit", "message", "", 0, <<"message", Hi("c1")>>, E2ECtx)>>
         /\ Emissions(log', MessageEvent)
              = <<Rec("emit", MessageEvent, "", 0, <<"message", Hi("c1")>>, E2ECtx)>>]_vars

\* C8 witness: the scenario has run, on an engine nothing was ever registered on
C8_Witness ==
    /\ ~ignoreSelf /\ ~ignoreBots
    /\ textRegexpCallbacks = <<>> /\ replyListeners = <<>> /\ replyListenerId = 0
    /\ op.name = "ingest" /\ op.payload = Some(E2EPayload)
    /\ Calls(log, "onText") = <<>>
    /\ Len(Emissions(log, "activity")) = 1 /\ Len(Emissions(log, MessageEvent)) = 1

\* The step a qualifying message is ingested in: a chat or postback message
\* with text, of a contact or an agent
QualifyingStep ==
    /\ op'.name = "ingest" /\ ~op'.thrown
    /\ StartsWithMessage(op'.payload[1].event)
    /\ op'.payload[1].message # None
    /\ op'.payload[1].message[1].type \in {"chat", "postback"}
    /\ Truthy(op'.payload[1].message[1].text)
    /\ op'.payload[1].message[1].role \in {"contact", "agent"}

\* The reply-listener calls of a log for the listener `id`
RepliesOf(l, id) == SelectSeq(l, LAMBDA e : e.k = "reply" /\ e.id = id)

\* C4 as stated, the inbound snapshot carrying the awaiting-answer marker:
\* a qualifying message calls the handler of every ask listener of its
\* conversation exactly once with that message, and calls no ask listener of
\* another conversation.
C4_Claim ==
    [][(QualifyingStep /\ op'.payload[1].conversation[1].asked)
         => \A k \in DOMAIN replyListeners :
              replyListeners[k].callback = "ask" =>
                LET calls == RepliesOf(log', replyListeners[k].id)
                IN IF replyListeners[k].chatId = op'.payload[1].message[1].conversation
                   THEN /\ Len(calls) = 1
                        /\ calls[1].arg = <<"message", op'.payload[1].message[1]>>
                   ELSE calls = <<>>]_vars

\* C6 as stated: on a qualifying message of a conversation whose marker is
\* set, every reply listener registered for that conversation is called in
\* that dispatch, and none of them is in the listener list afterwards.
C6_Claim ==
    [][(QualifyingStep /\ op'.payload[1].conversation[1].asked)
         => \A k \in DOMAIN replyListeners :
              replyListeners[k].chatId = op'.payload[1].message[1].conversation =>
                /\ RepliesOf(log', replyListeners[k].id) # <<>>
                /\ \A j \in DOMAIN replyListeners' :
                     replyListeners'[j].id # replyListeners[k].id]_vars

\* The patterns of the text-trigger calls of a log, in call order
Fired(l) == [i \in DOMAIN Calls(l, "onText") |-> Calls(l, "onText")[i].re]

\* C7 as stated: with triggers [A, B] registered, both matching the text of a
\* qualifying message, A then B are called when onlyFirstMatch is off, and
\* only A when it is on.
C7_Claim ==
    [][(/\ QualifyingStep
        /\ Len(textRegexpCallbacks) = 2
        /\ \A k \in 1..2 : TextMatches(textRegexpCallbacks[k].regexp,
                                       op'.payload[1].message[1].text))
         => Fired(log') = IF onlyFirstMatch
                          THEN <<textRegexpCallbacks[1].regexp.src>>
                          ELSE <<textRegexpCallbacks[1].regexp.src,
                                 textRegexpCallbacks[2].regexp.src>>]_vars

\* The three places match looks "@organization" up, for the arguments a
OrgOnMessage(a) == Prop(a.m, AtOrganization) = JsStr("123")
OrgOnContext(a) == Prop(a.c, Key(FALSE, "organization")) = JsStr("123")
OrgOnMeta(a) ==
    /\ Key(FALSE, "meta") \in DOMAIN a.c
    /\ Prop(a.c[Key(FALSE, "meta")][2], AtOrganization) = JsStr("123")

\* The conditionals map of the call is {"@organization": "123"}
OrgMap(a) == a.keys = <<AtOrganization>> /\ a.conditionals[AtOrganization] = JsStr("123")

\* C9 as stated: the empty map matches every pair, and {"@organization":
\* "123"} matches exactly when the context's organization is "123".
C9_Original ==
    matchResult # None =>
      LET a == matchArgs[1]
      IN IF a.keys = <<>> THEN matchResult[1]
         ELSE OrgMap(a) => (matchResult[1] <=> OrgOnContext(a))

\* C9 amended: the empty map matches every pair, and {"@organization":
\* "123"} matches exactly when the message's "@organization" field, the
\* context's organization field or the "@organization" entry of the
\* context's metadata equals "123".
C9_Match ==
    matchResult # None =>
      LET a == matchArgs[1]
      IN IF a.keys = <<>> THEN matchResult[1]
         ELSE OrgMap(a) =>
                (matchResult[1] <=> (OrgOnMessage(a) \/ OrgOnContext(a) \/ OrgOnMeta(a)))

\* C9 witness: {"@organization": "123"} matched a context of organization
\* "456" without metadata, for a message whose "@organization" is "123"
C9_Witness ==
    /\ matchResult = Some(TRUE)
    /\ OrgMap(matchArgs[1])
    /\ Prop(matchArgs[1].c, Key(FALSE, "organization")) = JsStr("456")
    /\ Key(FALSE, "meta") \notin DOMAIN matchArgs[1].c
    /\ OrgOnMessage(matchArgs[1])

\* The receive steps let the payload through to the emissions: the stack is
\* empty, or the payload has a message that no enabled filter stops
ReachesRouter(payload) ==
    \/ receive = <<>>
    \/ ~StartsWithMessage(payload.event)
    \/ /\ payload.message # None
       /\ ~(ignoreSelf /\ payload.message[1].user = BotUser)
       /\ ~(ignoreBots /\ payload.message[1].role = "bot")

\* The receive steps of a log, by name
StepsRun(l) == [i \in DOMAIN Calls(l, "mw") |-> Calls(l, "mw")[i].ev]

\* C11: with preloading on and the organization of the conversation not
\* cached, an accepted message-shaped ingest only starts the fetch (no
\* receive step, no emission); when the fetch succeeds the organization is
\* cached and the event goes through the receive steps and the router once;
\* when it fails, one error signal is emitted, the organization stays
\* uncached and nothing of the event is dispatched, then or later.
C11_Preload ==
    [][/\ (/\ op'.name = "ingest" /\ ~BadSignature(op')
           /\ StartsWithMessage(op'.payload[1].event)
           /\ hasConversation(op'.payload[1])
           /\ preloadOrganizations
           /\ op'.payload[1].conversation[1].organization \notin organizations)
            => /\ log' = <<Rec("fetch", op'.payload[1].conversation[1].organization,
                               "", 0, None, None)>>
               /\ fetches' = Append(fetches, op'.payload[1])
               /\ organizations' = organizations
       /\ op'.name = "fetch.then"
            => /\ organizations'
                    = organizations \cup {op'.payload[1].conversation[1].organization}
               /\ Len(fetches') = Len(fetches) - 1
               /\ StepsRun(log') \in {SubSeq(receive, 1, n) : n \in 0..Len(receive)}
               /\ (receive # <<>>) => Len(StepsRun(log')) >= 1
               /\ Len(Emissions(log', "activity"))
                    = IF ReachesRouter(op'.payload[1]) THEN 1 ELSE 0
       /\ op'.name = "fetch.catch"
            => /\ log' = <<ErrorSignal("Could not load organization")>>
               /\ organizations' = organizations
               /\ conversations' = conversations
               /\ Len(fetches') = Len(fetches) - 1]_vars

\* C11 witness: the fetch for a chat message of a contact failed; the error
\* signal is all that happened and no organization is cached
C11_Witness ==
    /\ op.name = "fetch.catch"
    /\ op.payload[1] = Payload(MessageEvent, Undefined, Snap("c1", TRUE), Some(Hi("c1")))
    /\ preloadOrganizations /\ organizations = {} /\ fetches = <<>>
    /\ log = <<ErrorSignal("Could not load organization")>>

\* C12 as stated: a message that reaches the router and whose conversation
\* is not in the cache is still dispatched to its end: one error signal, then
\* 'message' and the typed event, each with the message and the empty context.
C12_Claim ==
    (/\ IngestOfMessage
     /\ ReachesRouter(op.payload[1])
     /\ conversations[IngestedMessage.conversation] = None)
      => /\ ~op.thrown
         /\ Len(Emissions(log, "error")) = 1
         /\ Emissions(log, "message")
              = <<Rec("emit", "message", "", 0, <<"message", IngestedMessage>>,
                      Some(EmptyCtx))>>
         /\ Emissions(log, op.payload[1].event)
              = <<Rec("emit", op.payload[1].event, "", 0,
                      <<"message", IngestedMessage>>, Some(EmptyCtx))>>

\* The steps that return without calling next(), and those that call next(err)
Stopping == {"cfg.stop", "use.stop"}
Failing == {"cfg.fail", "use.fail"}
EmitsOf(l) == SelectSeq(l, LAMBDA e : e.k = "emit")

\* The receive stack is the enabled built-in steps, then the configured
\* steps, then the steps added with use
RegistrationOrder ==
    LET builtin == receiveStack(ignoreSelf, ignoreBots)
        n0 == Len(builtin)
    IN /\ Len(receive) >= n0
       /\ SubSeq(receive, 1, n0) = builtin
       /\ \A i \in (n0 + 1)..Len(receive) : receive[i] \in ConfiguredSteps \cup UsedSteps
       /\ \A i, j \in (n0 + 1)..Len(receive) :
             (i < j) => ~(receive[i] \in UsedSteps /\ receive[j] \in ConfiguredSteps)

\* C13: the receive stack is in registration order and use appends to it;
\* an ingest runs the steps in that order up to the first one that does not
\* call next(); when a step returns without calling next nothing is emitted,
\* when a step calls next(err) the pipeline error signal is the one emission,
\* and when every step calls next() 'activity' is emitted once.
C13_Pipeline ==
    /\ []RegistrationOrder
    /\ [][/\ op'.name = "use" => \E step \in UsedSteps : receive' = Append(receive, step)
          /\ op'.name = "ingest" =>
               LET run == StepsRun(log')
                   n == Len(run)
               IN /\ run = SubSeq(receive, 1, n)
                  /\ \A i \in 1..(n - 1) : receive[i] \notin Stopping \cup Failing
                  /\ (n < Len(receive)) =>
                        \A i \in DOMAIN log' : log'[i].k = "emit" => log'[i].ev = "error"
                  /\ (n >= 1 /\ receive[n] \in Stopping) => EmitsOf(log') = <<>>
                  /\ ~ReachesRouter(op'.payload[1]) => EmitsOf(log') = <<>>
                  /\ (n >= 1 /\ receive[n] \in Failing) =>
                        EmitsOf(log')
                          = <<ErrorSignal("middleware receive processing error")>>
                  /\ (/\ n = Len(receive)
                      /\ (n >= 1 => receive[n] \notin Stopping \cup Failing)
                      /\ ReachesRouter(op'.payload[1]))
                       => Len(Emissions(log', "activity")) = 1]_vars

\* C13 witness: both built-in steps, a configured step and a step added with
\* use ran in that order for a contact's message; the last one called
\* next(err) and the error signal is the only emission
C13_Witness ==
    /\ op.name = "ingest" /\ op.payload[1].message = Some(Hi("c1"))
    /\ receive = <<"ignoreSelf", "ignoreBots", "cfg.pass", "use.fail">>
    /\ StepsRun(log) = receive
    /\ EmitsOf(log) = <<ErrorSignal("middleware receive processing error")>>

\* The one send of `text` to the conversation convId
SendOf(convId, text) == Rec("send", convId, "", 0, <<"text", text>>, None)

\* The message emission of a log is one emission of message with a context
\* built for the message's conversation
EmitsMessageOnce(l, message) ==
    /\ Len(Emissions(l, "message")) = 1
    /\ Emissions(l, "message")[1].arg = <<"message", message>>
    /\ Emissions(l, "message")[1].ctx # None
    /\ Emissions(l, "message")[1].ctx[1].conversation # None
    /\ Emissions(l, "message")[1].ctx[1].conversation[1].id = message.conversation

\* C14 as stated: with ignoreSelf off every ingested message of the bot is
\* emitted once as 'message' with a context for its conversation, and say on
\* that context is one send of the text to that conversation.
C14_Original ==
    /\ (IngestOfMessage /\ ~ignoreSelf /\ IngestedMessage.user = BotUser)
         => EmitsMessageOnce(log, IngestedMessage)
    /\ op.name = "say"
         => log = <<SendOf(op.payload[1].conversation, "hi there bot")>>

\* C14 amended: with ignoreSelf off an ingested message of the bot that
\* ignoreBots does not stop (its role is not "bot", or ignoreBots is off
\* too), whose conversation is cached and that no reply listener answers,
\* is emitted once as 'message' with a context for its conversation; say on
\* a context built for a cached conversation is one send of the text to the
\* conversation of the message.
C14_SelfDispatch ==
    /\ (/\ IngestOfMessage /\ ~ignoreSelf /\ IngestedMessage.user = BotUser
        /\ ReachesRouter(op.payload[1])
        /\ conversations[IngestedMessage.conversation] # None
        /\ Calls(log, "reply") = <<>>)
         => EmitsMessageOnce(log, IngestedMessage)
    /\ (op.name = "say" /\ ~op.thrown)
         => log = <<SendOf(op.payload[1].conversation, "hi there bot")>>

\* C14 witness: with ignoreSelf off and ignoreBots on, a 'message' subscriber
\* was given a chat message of the bot (role contact) in conversation c1 and
\* said "hi there bot"
C14_Witness ==
    /\ ~ignoreSelf /\ ignoreBots
    /\ op.name = "say" /\ ~op.thrown
    /\ op.payload[1] = Message("c1", BotUser, "contact", "chat", "hi")
    /\ log = <<SendOf("c1", "hi there bot")>>

\* The ids of the reply listeners of a list
ListenerIds(list) == {list[k].id : k \in DOMAIN list}

\* C15: the ids of the registered reply listeners are pairwise distinct and
\* at most the counter; the counter never decreases; a listener that is new
\* in the list after an operation has an id above the counter before it, so
\* above every id ever given out.
C15_ListenerIds ==
    /\ [](/\ \A j, k \in DOMAIN replyListeners :
               replyListeners[j].id = replyListeners[k].id => j = k
          /\ \A k \in DOMAIN replyListeners :
               replyListeners[k].id \in 1..replyListenerId)
    /\ [][/\ replyListenerId' >= replyListenerId
          /\ \A id \in ListenerIds(replyListeners') \ ListenerIds(replyListeners) :
               id > replyListenerId /\ id = replyListenerId'
          /\ op'.name \in {"onReply", "ask.sent"} /\ Len(replyListeners') > Len(replyListeners)
               => replyListenerId' = replyListenerId + 1]_vars

\* C15 witness: listener 2 was removed and a third registration got id 3
C15_Witness ==
    /\ op.name \in {"onReply", "ask.sent"}
    /\ replyListenerId = 3
    /\ Len(replyListeners) = 2
    /\ replyListeners[1].id = 1 /\ replyListeners[2].id = 3

\* C16 as stated: a listener registered with onReply that a qualifying
\* message invokes is invoked once by it and is no longer in the listener
\* list after that message.
C16_Claim ==
    [][QualifyingStep =>
         \A k \in DOMAIN replyListeners :
           (/\ replyListeners[k].callback = "plain"
            /\ RepliesOf(log', replyListeners[k].id) # <<>>)
             => /\ Len(RepliesOf(log', replyListeners[k].id)) = 1
                /\ replyListeners[k].id \notin ListenerIds(replyListeners')]_vars

\* An accepted payload that ingest dispatches without a fetch: a resource
\* activity, or a message-shaped payload whose organization is cached
NeedsNoFetch(payload) ==
    /\ Truthy(payload.event)
    /\ \/ ~StartsWithMessage(payload.event) /\ payload.activity # Undefined
       \/ /\ StartsWithMessage(payload.event) /\ hasConversation(payload)
          /\ payload.conversation[1].organization \in organizations

\* C17: while a fetch is outstanding, an accepted ingest of an event that
\* needs no fetch dispatches that event at once (the receive steps run, and
\* 'activity' is emitted when they let it through), leaves the outstanding
\* fetch as it is and dispatches nothing of the waiting event; the waiting
\* event is dispatched by the continuation of its own fetch only.
C17_NotBlocked ==
    [][/\ (/\ op'.name = "ingest" /\ ~BadSignature(op')
           /\ fetches # <<>>
           /\ NeedsNoFetch(op'.payload[1]))
            => /\ fetches' = fetches
               /\ Calls(log', "fetch") = <<>>
               /\ (receive # <<>>) => Len(StepsRun(log')) >= 1
               /\ Len(Emissions(log', "activity"))
                    = IF ReachesRouter(op'.payload[1]) THEN 1 ELSE 0
               /\ \A i \in DOMAIN log' :
                     /\ (log'[i].arg # None /\ log'[i].arg[1] = "message")
                          => log'[i].arg = <<"message", op'.payload[1].message[1]>>
                     /\ (log'[i].arg # None /\ log'[i].arg[1] = "event")
                          => log'[i].arg = <<"event", op'.payload[1]>>
       /\ op'.name = "fetch.then"
            => \E i \in DOMAIN fetches :
                 /\ op'.payload = Some(fetches[i])
                 /\ fetches' = Splice(fetches, i)
                 /\ \A j \in DOMAIN log' :
                       (log'[j].arg # None /\ log'[j].arg[1] = "message")
                         => log'[j].arg = <<"message", fetches[i].message[1]>>]_vars

\* C17 witness: with the fetch for a message of conversation c1 outstanding,
\* a conversation.update activity was ingested and dispatched
C17_Witness ==
    /\ op.name = "ingest"
    /\ op.payload[1] = Payload(UpdateEvent, "act", Snap("c1", FALSE), None)
    /\ fetches = <<Payload(MessageEvent, Undefined, Snap("c1", TRUE), Some(Hi("c1")))>>
    /\ Len(Emissions(log, "activity")) = 1
    /\ Len(Emissions(log, UpdateEvent)) = 1

\* The patterns of the triggers of a list that match a text, in list order
Matching(list, text) ==
    LET hits == SelectSeq(list, LAMBDA t : TextMatches(t.regexp, text))
    IN [i \in DOMAIN hits |-> hits[i].regexp.src]

\* C18 as stated: with onlyFirstMatch off, a qualifying message invokes every
\* registered trigger that matches its text once, in registration order,
\* also when a handler removes its own trigger during the dispatch.
C18_Claim ==
    [][(QualifyingStep /\ ~onlyFirstMatch)
         => Fired(log') = Matching(textRegexpCallbacks,
                                   op'.payload[1].message[1].text)]_vars

\* C19 as stated: an exception a handler throws during a dispatch leaves the
\* operation the dispatch runs in (ingest, or the continuation of a
\* successful fetch) and nothing is emitted after it; no error signal
\* reports it.
C19_Claim ==
    \A i \in DOMAIN log :
      (log[i].k = "throw" /\ log[i].ev = HandlerError)
        => op.thrown /\ i = Len(log)

\* C20 as stated: the organization of every actions context given to a
\* subscriber is the cached Organization when the organization id of the
\* conversation is in the organization cache, and the reference embedded in
\* the conversation otherwise.
C20_Claim ==
    \A i \in DOMAIN log :
      (log[i].k = "emit" /\ log[i].ctx # None /\ log[i].ctx[1].conversation # None)
        => LET org == log[i].ctx[1].conversation[1].organization
           IN log[i].ctx[1].organization
                = IF org \in organizations THEN <<"resolved", org>> ELSE <<"ref", org>>

\* The arguments of the last set / get, and what get returned
SetArgs(l) == l[1].arg
GetKey(l) == l[1].arg[1]
GetValue(l) == l[2].arg[1]

\* get directly after set, with the same key
SetThenGet == op.name = "set" /\ op'.name = "get" /\ GetKey(log') = SetArgs(log)[1]

\* C21: set(key, value) followed by get(key) on the actions context of a
\* cached conversation returns value, for every key and every defined value.
C21_Claim == [][SetThenGet => GetValue(log') = SetArgs(log)[2]]_vars

\* The expected value accepts a value: equality for a scalar, one equal
\* element for an array, the pattern's test of the value's string for a pattern
Accepts(value, expected) ==
    CASE expected[1] = "arr" -> \E i \in DOMAIN expected[2] : value = expected[2][i]
      [] expected[1] = "re"  -> RegExpTest(expected[2], JsToString(value))
      [] OTHER               -> value = expected

\* The values the three locations hold for a key, in lookup order; a location
\* that does not apply (no "@", no metadata) is left out
Locations(a, key) ==
    <<Prop(a.m, key)>>
    \o (IF key.at THEN <<Prop(a.c, Key(FALSE, key.name))>> ELSE <<>>)
    \o (IF Key(FALSE, "meta") \in DOMAIN a.c
        THEN <<Prop(a.c[Key(FALSE, "meta")][2], key)>> ELSE <<>>)

\* Only the first location with a defined value is tested
PassesFirstDefined(a, key) ==
    LET defined == SelectSeq(Locations(a, key), LAMBDA v : v # JsUndef)
    IN defined # <<>> /\ Accepts(defined[1], a.conditionals[key])

\* Some location passes: the message's value when it is truthy, the context
\* field of an "@" key, the metadata entry when the context has metadata
PassesAnywhere(a, key) ==
    \/ JsTruthy(Prop(a.m, key)) /\ Accepts(Prop(a.m, key), a.conditionals[key])
    \/ key.at /\ Accepts(Prop(a.c, Key(FALSE, key.name)), a.conditionals[key])
    \/ /\ Key(FALSE, "meta") \in DOMAIN a.c
       /\ Accepts(Prop(a.c[Key(FALSE, "meta")][2], key), a.conditionals[key])

\* C22 as stated: a non-empty conditionals map matches iff every key passes,
\* a key being tested only on the first of its locations (message, context
\* field, context metadata) that holds a defined value.
C22_Original ==
    (matchResult # None /\ matchArgs[1].keys # <<>>) =>
      LET a == matchArgs[1]
      IN matchResult[1] <=> \A i \in DOMAIN a.keys : PassesFirstDefined(a, a.keys[i])

\* C22 amended: a non-empty conditionals map matches iff every key passes, a
\* key passing when the expected value accepts the message's truthy value, or
\* the context field of an "@" key, or the entry of the context's metadata:
\* a later location is consulted whenever the earlier ones did not pass.
C22_AnyLocation ==
    (matchResult # None /\ matchArgs[1].keys # <<>>) =>
      LET a == matchArgs[1]
      IN matchResult[1] <=> \A i \in DOMAIN a.keys : PassesAnywhere(a, a.keys[i])

\* C22 witness: {"@organization": /^1/} matched by the context's
\* organization "123" although the message's own "@organization", "456", is
\* defined and was not accepted
C22_Witness ==
    /\ matchResult = Some(TRUE)
    /\ matchArgs[1].keys = <<AtOrganization>>
    /\ matchArgs[1].conditionals[AtOrganization] = JsRe("^1")
    /\ Prop(matchArgs[1].m, AtOrganization) = JsStr("456")
    /\ Prop(matchArgs[1].c, Key(FALSE, "organization")) = JsStr("123")

\* The places of a log where ev is emitted
EmittedAt(l, ev) == {i \in DOMAIN l : l[i].k = "emit" /\ l[i].ev = ev}

\* The texts of the model that begin with ">"
GtTexts == {">", ">go"}

\* The message is an /assign of the bot, a ">" command or a mention of the bot
NotifyCase(message) ==
    \/ /\ message.type = "command" /\ message.text = "/assign"
       /\ message.meta # None /\ BotUser \in message.meta[1].users
    \/ message.type = "command" /\ message.text \in GtTexts
    \/ /\ message.type = "mention"
       /\ message.meta # None /\ message.meta[1].targetUser = BotUser

\* A message went through the receive steps to the router
MessageDispatched == IngestOfMessage /\ EmittedAt(log, "activity") # {}

\* C23: a dispatched message that no reply handler claimed emits notify iff
\* it is an /assign command whose target users include the bot, a command
\* whose text begins with ">" or a mention whose target user is the bot;
\* notify is emitted at most once, with the message, after the 'message'
\* emission and the typed emission, and never when a reply handler claimed
\* the message.
C23_Notify ==
    MessageDispatched =>
      LET notify == EmittedAt(log, "notify")
      IN /\ Cardinality(notify) <= 1
         /\ Calls(log, "reply") # <<>> => notify = {}
         /\ Calls(log, "reply") = <<>> => (notify # {} <=> NotifyCase(IngestedMessage))
         /\ \A i \in notify :
              /\ log[i].arg = <<"message", IngestedMessage>>
              /\ \E j \in EmittedAt(log, "message"), k \in EmittedAt(log, op.payload[1].event) :
                   j < k /\ k < i

\* C23 witness: an /assign command naming the bot among its target users was
\* dispatched and notify was emitted
C23_Witness ==
    /\ MessageDispatched
    /\ IngestedMessage.type = "command" /\ IngestedMessage.text = "/assign"
    /\ EmittedAt(log, "notify") # {}

\* The last ingest was given a payload that passes the signature and event checks
Accepted(o) == ~BadSignature(o) /\ Truthy(o.payload[1].event)

\* The cache with the entry of the payload's conversation set to its snapshot
Replaced(payload) ==
    [conversations EXCEPT ![payload.conversation[1].id] = payload.conversation]

\* What a step does to the conversation cache
CacheStep ==
    IF op'.name = "ingest" /\ Accepted(op')
    THEN LET payload == op'.payload[1]
             shaped == payload.conversation # None
                       /\ payload.conversation[1].id \in ConvIds
         IN IF StartsWithMessage(payload.event)
            THEN conversations' = IF shaped THEN Replaced(payload) ELSE conversations
            ELSE IF payload.event = UpdateEvent /\ payload.activity # Undefined /\ shaped
                    /\ conversations[payload.conversation[1].id] # None
            THEN conversations' = Replaced(payload)
            ELSE conversations' = conversations
    ELSE conversations' = conversations

\* C24: an accepted message-shaped ingest with a conversation sets the cache
\* entry of that conversation to exactly the payload's snapshot, whether the
\* event is then dispatched, dropped by a receive step or deferred by a
\* preload; a conversation.update event replaces the entry of a cached
\* conversation and creates none; nothing else changes the cache, and an
\* entry is never removed.
C24_Cache ==
    [][/\ CacheStep
       /\ \A c \in ConvIds : conversations[c] # None => conversations'[c] # None]_vars

\* C24 witness: the message of a bot was dropped by a receive step and its
\* conversation is cached with the snapshot of the payload, while the entry
\* of c1 is the snapshot a conversation.update event carried
C24_Witness ==
    /\ op.name = "ingest" /\ Accepted(op)
    /\ op.payload[1].message # None
    /\ op.payload[1].message[1].role = "bot"
    /\ EmittedAt(log, "activity") = {}
    /\ Calls(log, "mw") # <<>>
    /\ conversations["c2"] = op.payload[1].conversation
    /\ conversations["c1"] = Snap("c1", FALSE)

\* The operation o, with log l, dispatched a message event to the handlers
DispatchOf(o, l) ==
    /\ o.name \in {"ingest", "fetch.then"}
    /\ o.payload # None
    /\ StartsWithMessage(o.payload[1].event)
    /\ o.payload[1].message # None
    /\ EmittedAt(l, "message") # {}

\* The last operation ingested and dispatched an event while an event of the
\* same conversation, ingested before it, waited for its organization; this
\* step dispatches that earlier event
Inversion ==
    /\ op.name = "ingest" /\ DispatchOf(op, log)
    /\ op'.name = "fetch.then" /\ DispatchOf(op', log')
    /\ op'.payload[1].conversation[1].id = op.payload[1].conversation[1].id
    /\ op'.payload[1] # op.payload[1]
    /\ \E i \in DOMAIN fetches : fetches[i] = op'.payload[1]

\* C25 as stated: the message events of a conversation are dispatched in the
\* order they were ingested: no event is dispatched directly after an event
\* of its conversation that was ingested later.
C25_Claim == [][~Inversion]_vars

\* The conversations of the actions contexts a log hands to handlers
CtxConversations(l) ==
    {l[i].ctx[1].conversation :
        i \in {j \in DOMAIN l : l[j].ctx # None /\ l[j].ctx[1].conversation # None}}

\* C26 as stated: the actions context handed to the handlers of a message
\* event carries the conversation snapshot of that event's payload, also when
\* the dispatch was deferred by a preload and other events of the
\* conversation were ingested in between.
C26_Claim ==
    DispatchOf(op, log) => CtxConversations(log) \subseteq {op.payload[1].conversation}

====
